---- MODULE Spec2Model ----
(***************************************************************************)
(* Penalty stiffness assemblers of compmech/panel/connections/kCLTxycte.pyx *)
(* (fkCBFxcte11, fkCBFxycte12, fkCBFycte22) as a state machine: a call     *)
(* copies the panel attributes into locals, allocates three zeroed buffers *)
(* and runs a four-deep loop nest; every innermost iteration is one step;  *)
(* the call ends by handing the buffers to coo_matrix.                     *)
(*                                                                         *)
(* Doubles are modelled as exact rationals extended with the IEEE values   *)
(* inf and nan (cdivision=True: a division by zero raises nothing).        *)
(* Rounding is not modelled.                                               *)
(***************************************************************************)
EXTENDS Integers, Sequences, FiniteSets, TLC

VARIABLES pc, args, p1, p2, loc, idx, c, kCr, kCc, kCv, wcount, oob, result, hist

vars == <<pc, args, p1, p2, loc, idx, c, kCr, kCc, kCv, wcount, oob, result, hist>>

\* ------------------------------------------------------------------ bounds

\* Largest truncation order m, n of a panel.
MaxOrder == 2

\* cdef int num = 3 : degrees of freedom (u, v, w) per basis-term pair.
num == 3

\* ------------------------------------------------- doubles (exact + inf/nan)

Abs(x) == IF x < 0 THEN -x ELSE x

RECURSIVE GCD(_, _)
GCD(x, y) == IF y = 0 THEN x ELSE GCD(y, x % y)

NaN == [k |-> "nan", n |-> 0, d |-> 0]

Inf(s) == [k |-> "inf", n |-> s, d |-> 0]

\* The finite double n/d (d # 0), in lowest terms with a positive denominator.
Fin(n, d) ==
    LET g == GCD(Abs(n), Abs(d))
        s == IF d < 0 THEN -1 ELSE 1
    IN  [k |-> "fin", n |-> s * (n \div g), d |-> Abs(d) \div g]

Dbl(i) == [k |-> "fin", n |-> i, d |-> 1]

Sgn(x) == IF x.n < 0 THEN -1 ELSE IF x.n > 0 THEN 1 ELSE 0

IsZero(x) == x.k = "fin" /\ x.n = 0

Mul(x, y) ==
    IF x.k = "nan" \/ y.k = "nan" THEN NaN
    ELSE IF x.k = "inf" \/ y.k = "inf"
         THEN IF IsZero(x) \/ IsZero(y) THEN NaN ELSE Inf(Sgn(x) * Sgn(y))
         ELSE Fin(x.n * y.n, x.d * y.d)

Add(x, y) ==
    IF x.k = "nan" \/ y.k = "nan" THEN NaN
    ELSE IF x.k = "inf" /\ y.k = "inf"
         THEN IF x.n = y.n THEN x ELSE NaN
         ELSE IF x.k = "inf" THEN x
         ELSE IF y.k = "inf" THEN y
         ELSE Fin(x.n * y.d + y.n * x.d, x.d * y.d)

\* C division (cdivision=True): x/0 is inf or nan, never an exception.
Div(x, y) ==
    IF x.k = "nan" \/ y.k = "nan" THEN NaN
    ELSE IF x.k = "inf"
         THEN IF y.k = "inf" THEN NaN
              ELSE Inf(IF Sgn(y) < 0 THEN -x.n ELSE x.n)
         ELSE IF y.k = "inf" THEN Dbl(0)
         ELSE IF y.n = 0
              THEN IF x.n = 0 THEN NaN ELSE Inf(Sgn(x))
              ELSE Fin(x.n * y.d, x.d * y.n)

Neg(x) == IF x.k = "nan" THEN NaN ELSE [x EXCEPT !.n = -x.n]

Sub(x, y) == Add(x, Neg(y))

\* x <= y on finite doubles.
Leq(x, y) == x.k = "fin" /\ y.k = "fin" /\ x.n * y.d <= y.n * x.d

RECURSIVE ProdFrom(_, _, _)
ProdFrom(s, i, acc) ==
    IF i > Len(s) THEN acc ELSE ProdFrom(s, i + 1, Mul(acc, s[i]))

\* a*b*c*... as the compiler evaluates it: left to right.
Prod(s) == ProdFrom(s, 2, s[1])

Zero == Dbl(0)

Half == Fin(1, 2)

Quarter == Fin(1, 4)

\* ------------------------------------------- basis library (bardell*.h)

\* The library is an external numerical primitive: a fixed function of its
\* arguments.  It is modelled by fixed integer-valued stand-ins that depend on
\* every argument (index, coordinate, the four boundary coefficients).

\* Weight of a basis index under four boundary coefficients.
BasisKey(i, t) == (i + 1) * (t[1] + t[3]) + (i + 2) * (t[2] + t[4])

\* double calc_f(int i, double xi, double xi1t, double xi1r, double xi2t, double xi2r)
calc_f(i, xi, t) ==
    IF xi.k # "fin" THEN NaN
    ELSE Dbl(((BasisKey(i, t) + xi.n + xi.d) % 5) - 2)

\* double calc_fxi(int i, double xi, double xi1t, double xi1r, double xi2t, double xi2r)
calc_fxi(i, xi, t) ==
    IF xi.k # "fin" THEN NaN
    ELSE Dbl(((2 * BasisKey(i, t) + i + xi.n + 2 * xi.d) % 5) - 2)

\* double integral_ff(int i, int j, x1t, x1r, x2t, x2r, y1t, y1r, y2t, y2r):
\* the integral of basis i (coefficients tx) times basis j (coefficients ty),
\* hence symmetric under exchanging (i, tx) with (j, ty).
integral_ff(i, j, tx, ty) ==
    LET hi == BasisKey(i, tx) + i
        hj == BasisKey(j, ty) + j
    IN  Dbl((((hi + 1) * (hj + 1) + hi + hj) % 7) - 3)

\* ------------------------------------------------------------------ panels

\* A Panel object: extents a, b, orders m, n and, per field (u, v, w) and axis
\* (x, y), the four boundary coefficients <<1t, 1r, 2t, 2r>>.
Panel(a, b, m, n, ux, uy, vx, vy, wx, wy) ==
    [a |-> a, b |-> b, m |-> m, n |-> n,
     ux |-> ux, uy |-> uy, vx |-> vx, vy |-> vy, wx |-> wx, wy |-> wy]

Orders == 1 .. MaxOrder

\* Panel 1 (the base): a = 3, b = 2.
Panels1 ==
    { Panel(3, 2, m, n, <<0, 1, 0, 1>>, <<2, 0, 1, 1>>, <<1, 1, 0, 0>>,
            <<1, 0, 2, 1>>, <<0, 0, 0, 2>>, <<0, 0, 2, 0>>) :
        m \in Orders, n \in Orders }

\* Panel 2 (the flange): a = 1, b = 2.
Panels2 ==
    { Panel(1, 2, m, n, <<1, 2, 0, 0>>, <<0, 0, 1, 1>>, <<2, 1, 0, 1>>,
            <<2, 0, 2, 2>>, <<0, 1, 1, 2>>, <<1, 2, 0, 2>>) :
        m \in Orders, n \in Orders }

\* The panel argument a procedure never reads.
NoPanel ==
    Panel(1, 1, 1, 1, <<0, 0, 0, 0>>, <<0, 0, 0, 0>>, <<0, 0, 0, 0>>,
          <<0, 0, 0, 0>>, <<0, 0, 0, 0>>, <<0, 0, 0, 0>>)

\* ------------------------------------------------------------------ inputs

\* Penalty stiffnesses <<kt, kr>>; <<0, 1>> violates the precondition.
Stiffness == {<<2, 0>>, <<2, 1>>, <<0, 0>>, <<0, 1>>}

\* Positions along an edge of length len: both ends and one interior point.
Positions(len) == {0, 1, len}

Offsets == {0, num}

\* Sizes of the assembled matrix: the block of a single m = n = 1 panel, one
\* too small for the larger blocks, and one large enough for every block at
\* every offset.
Sizes == {num, num * MaxOrder, num * MaxOrder * MaxOrder + num}

Input(proc, kk, q1, q2, x, y, size, row0, col0) ==
    [proc |-> proc, kt |-> kk[1], kr |-> kk[2], p1 |-> q1, p2 |-> q2,
     xcte1 |-> x, ycte2 |-> y, size |-> size, row0 |-> row0, col0 |-> col0]

Inputs11 ==
    { Input("fkCBFxcte11", kk, q1, NoPanel, x, 0, size, row0, col0) :
        kk \in Stiffness, q1 \in Panels1, x \in Positions(3),
        size \in Sizes, row0 \in Offsets, col0 \in Offsets }

\* The cross-coupling calls: edge positions <<xcte1, ycte2>> and placements
\* <<row0, col0>> on, above and below the diagonal of the largest matrix.
CrossPositions == {<<0, 2>>, <<1, 1>>, <<3, 0>>}

CrossOffsets == {<<0, 0>>, <<0, num>>, <<num, 0>>}

Inputs12 ==
    { Input("fkCBFxycte12", kk, q1, q2, xy[1], xy[2],
            num * MaxOrder * MaxOrder + num, rc[1], rc[2]) :
        kk \in Stiffness, q1 \in Panels1, q2 \in Panels2,
        xy \in CrossPositions, rc \in CrossOffsets }

Inputs22 ==
    { Input("fkCBFycte22", kk, NoPanel, q2, 0, y, size, row0, col0) :
        kk \in Stiffness, q2 \in Panels2, y \in Positions(2),
        size \in Sizes, row0 \in Offsets, col0 \in Offsets }

Inputs == Inputs11 \cup Inputs12 \cup Inputs22

\* ------------------------------------------------------- call set-up

\* a1 = p1.a ; b1 = p1.b ; ... ; w2ry1 = p1.w2ry : the locals read off a panel.
ReadPanel(p) ==
    [a |-> p.a, b |-> p.b, m |-> p.m, n |-> p.n,
     ux |-> p.ux, uy |-> p.uy, vx |-> p.vx, vy |-> p.vy, wx |-> p.wx, wy |-> p.wy]

\* The coordinate scaled but not shifted: 2*x/len.
NormalizeUnshifted(x, len) == Div(Mul(Dbl(2), Dbl(x)), Dbl(len))

\* xicte1 = 2*xcte1/a1 - 1.
Normalize(x, len) == Sub(Div(Mul(Dbl(2), Dbl(x)), Dbl(len)), Dbl(1))

\* fdim = 3*m1*n1*m1*n1
Fdim11(q) == 3 * q.m * q.n * q.m * q.n

\* fdim = 4*m1*n1*m2*n2
Fdim12(q1, q2) == 4 * q1.m * q1.n * q2.m * q2.n

\* np.zeros((fdim,), dtype=INT)
ZerosInt(fdim) == [x \in 0 .. fdim - 1 |-> 0]

\* np.empty in place of np.zeros: the slots hold what the last buffer held.
StaleDouble(fdim) == [x \in 0 .. fdim - 1 |-> IF x \in DOMAIN kCv THEN kCv[x] ELSE Zero]

\* np.zeros((fdim,), dtype=DOUBLE)
ZerosDouble(fdim) == [x \in 0 .. fdim - 1 |-> Zero]

\* The locals of a call once the loop nest is entered.
Locals(inp) ==
    LET q1 == IF inp.proc = "fkCBFycte22" THEN NoPanel ELSE ReadPanel(inp.p1)
        q2 == IF inp.proc = "fkCBFxcte11" THEN NoPanel ELSE ReadPanel(inp.p2)
    IN  [q1 |-> q1, q2 |-> q2,
         xicte1 |-> Normalize(inp.xcte1, q1.a),
         etacte2 |-> Normalize(inp.ycte2, q2.b),
         fdim |-> IF inp.proc = "fkCBFxcte11" THEN Fdim11(q1)
                  ELSE IF inp.proc = "fkCBFycte22" THEN Fdim11(q2)
                  ELSE Fdim12(q1, q2)]

\* The ranges of the four nested loops, outermost first.
LoopBounds(proc, l) ==
    IF proc = "fkCBFxcte11" THEN <<l.q1.n, l.q1.n, l.q1.m, l.q1.m>>
    ELSE IF proc = "fkCBFxycte12" THEN <<l.q1.n, l.q2.m, l.q1.m, l.q2.n>>
    ELSE <<l.q2.m, l.q2.m, l.q2.n, l.q2.n>>

\* The loop nest has run out (or one of its ranges is empty).
Exhausted(i, bnd) == i[1] >= bnd[1] \/ \E k \in 1 .. 4 : bnd[k] <= 0

\* The next index tuple of four nested range loops.
NextIdx(i, bnd) ==
    IF i[4] + 1 < bnd[4] THEN <<i[1], i[2], i[3], i[4] + 1>>
    ELSE IF i[3] + 1 < bnd[3] THEN <<i[1], i[2], i[3] + 1, 0>>
    ELSE IF i[2] + 1 < bnd[2] THEN <<i[1], i[2] + 1, 0, 0>>
    ELSE <<i[1] + 1, 0, 0, 0>>

\* ------------------------------------------------------- buffer writes

\* The write without its c += 1.
EmitInPlace(st, row, col, val) ==
    LET cc == IF st.c < 0 THEN 0 ELSE st.c
    IN  IF cc \in DOMAIN st.v
        THEN [c |-> cc,
              r |-> [st.r EXCEPT ![cc] = row],
              cl |-> [st.cl EXCEPT ![cc] = col],
              v |-> [st.v EXCEPT ![cc] = Add(st.v[cc], val)],
              wc |-> [st.wc EXCEPT ![cc] = st.wc[cc] + 1],
              oob |-> st.oob]
        ELSE [st EXCEPT !.c = cc, !.oob = TRUE]

\* c += 1 ; r[c] = row ; c[c] = col ; v[c] += val   (boundscheck=False: a
\* write outside the buffer is flagged and leaves the buffer alone).
Emit(st, row, col, val) ==
    LET cc == st.c + 1
    IN  IF cc \in DOMAIN st.v
        THEN [c |-> cc,
              r |-> [st.r EXCEPT ![cc] = row],
              cl |-> [st.cl EXCEPT ![cc] = col],
              v |-> [st.v EXCEPT ![cc] = Add(st.v[cc], val)],
              wc |-> [st.wc EXCEPT ![cc] = st.wc[cc] + 1],
              oob |-> st.oob]
        ELSE [st EXCEPT !.c = cc, !.oob = TRUE]

\* The value with the along-edge integral squared and the extent left out.
Trans11Squared(b1, fA, fB, g, kt) == Prod(<<Half, fA, fB, g, g, Dbl(kt)>>)

\* The u, v or w-translation value of fkCBFxcte11: 0.5*b1 * f1A*f1B*g1Ag1B*kt
Trans11(b1, fA, fB, g, kt) == Prod(<<Half, Dbl(b1), fA, fB, g, Dbl(kt)>>)

\* The w value with kr left out of the rotational term.
WW11NoKr(a1, b1, fA, fB, fAxi, fBxi, g, kt, kr) ==
    Mul(Prod(<<Half, Dbl(b1), Dbl(kt)>>),
        Add(Prod(<<fA, fB, g>>),
            Div(Prod(<<Dbl(4), fAxi, fBxi, g>>),
                Mul(Mul(Dbl(a1), Dbl(a1)), Dbl(kt)))))

\* 0.5*b1*kt * (f1Aw*f1Bw*g1Awg1Bw + 4*f1Awxi*f1Bwxi*g1Awg1Bw*kr/((a1*a1)*kt))
WW11(a1, b1, fA, fB, fAxi, fBxi, g, kt, kr) ==
    Mul(Prod(<<Half, Dbl(b1), Dbl(kt)>>),
        Add(Prod(<<fA, fB, g>>),
            Div(Prod(<<Dbl(4), fAxi, fBxi, g, Dbl(kr)>>),
                Mul(Mul(Dbl(a1), Dbl(a1)), Dbl(kt)))))

\* The u, v value of fkCBFycte22: 0.5*a2 * f2Af2B*g2A*g2B*kt
Trans22(a2, ff, gA, gB, kt) == Prod(<<Half, Dbl(a2), ff, gA, gB, Dbl(kt)>>)

\* 0.5*a2 * kt*(f2Awf2Bw*g2Aw*g2Bw + 4*f2Awf2Bw*g2Awxi*g2Bwxi*kr/((b2*b2)*kt))
WW22(a2, b2, ff, gA, gB, gAxi, gBxi, kt, kr) ==
    Mul(Mul(Half, Dbl(a2)),
        Mul(Dbl(kt),
            Add(Prod(<<ff, gA, gB>>),
                Div(Prod(<<Dbl(4), ff, gAxi, gBxi, Dbl(kr)>>),
                    Mul(Mul(Dbl(b2), Dbl(b2)), Dbl(kt))))))

\* The packing with j fastest-varying.
RowOfTransposed(off, j, m, i) == off + num * (i * m + j)

\* row = row0 + num*(j*m + i)
RowOf(off, j, m, i) == off + num * (j * m + i)

\* if row > col: continue   (NOTE symmetry)
\* The symmetry test reversed: the upper triangle skipped.
SkipLower(row, col) == row < col

\* The symmetry test with >=: the diagonal skipped too.
SkipDiagonal(row, col) == row >= col

Skip(row, col) == row > col

\* The value fkCBFxcte11 adds for field d (0: u, 1: v, 2: w) at <<j1, l1, i1, k1>>.
Value11(a, l, d, i) ==
    LET q == l.q1
        j1 == i[1]
        l1 == i[2]
        i1 == i[3]
        k1 == i[4]
        g1Aug1Bu == integral_ff(j1, l1, q.uy, q.uy)
        g1Avg1Bv == integral_ff(j1, l1, q.vy, q.vy)
        g1Awg1Bw == integral_ff(j1, l1, q.wy, q.wy)
    IN  IF d = 0
        THEN Trans11(q.b, calc_f(i1, l.xicte1, q.ux), calc_f(k1, l.xicte1, q.ux),
                     g1Aug1Bu, a.kt)
        ELSE IF d = 1
        THEN Trans11(q.b, calc_f(i1, l.xicte1, q.vx), calc_f(k1, l.xicte1, q.vx),
                     g1Avg1Bv, a.kt)
        ELSE WW11(q.a, q.b, calc_f(i1, l.xicte1, q.wx), calc_f(k1, l.xicte1, q.wx),
                  calc_fxi(i1, l.xicte1, q.wx), calc_fxi(k1, l.xicte1, q.wx),
                  g1Awg1Bw, a.kt, a.kr)

\* One innermost iteration of fkCBFxcte11 at <<j1, l1, i1, k1>>.
Body11(st, a, l, i) ==
    LET row == RowOf(a.row0, i[1], l.q1.m, i[3])
        col == RowOf(a.col0, i[2], l.q1.m, i[4])
        s1 == Emit(st, row + 0, col + 0, Value11(a, l, 0, i))
        s2 == Emit(s1, row + 1, col + 1, Value11(a, l, 1, i))
        s3 == Emit(s2, row + 2, col + 2, Value11(a, l, 2, i))
    IN  IF Skip(row, col) THEN st ELSE s3

\* The value fkCBFycte22 adds for field d (0: u, 1: v, 2: w) at <<i2, k2, j2, l2>>.
Value22(a, l, d, i) ==
    LET q == l.q2
        i2 == i[1]
        k2 == i[2]
        j2 == i[3]
        l2 == i[4]
        f2Auf2Bu == integral_ff(i2, k2, q.ux, q.ux)
        f2Avf2Bv == integral_ff(i2, k2, q.vx, q.vx)
        f2Awf2Bw == integral_ff(i2, k2, q.wx, q.wx)
    IN  IF d = 0
        THEN Trans22(q.a, f2Auf2Bu, calc_f(j2, l.etacte2, q.uy),
                     calc_f(l2, l.etacte2, q.uy), a.kt)
        ELSE IF d = 1
        THEN Trans22(q.a, f2Avf2Bv, calc_f(j2, l.etacte2, q.vy),
                     calc_f(l2, l.etacte2, q.vy), a.kt)
        ELSE WW22(q.a, q.b, f2Awf2Bw, calc_f(j2, l.etacte2, q.wy),
                  calc_f(l2, l.etacte2, q.wy), calc_fxi(j2, l.etacte2, q.wy),
                  calc_fxi(l2, l.etacte2, q.wy), a.kt, a.kr)

\* One innermost iteration of fkCBFycte22 at <<i2, k2, j2, l2>>.
Body22(st, a, l, i) ==
    LET row == RowOf(a.row0, i[3], l.q2.m, i[1])
        col == RowOf(a.col0, i[4], l.q2.m, i[2])
        s1 == Emit(st, row + 0, col + 0, Value22(a, l, 0, i))
        s2 == Emit(s1, row + 1, col + 1, Value22(a, l, 1, i))
        s3 == Emit(s2, row + 2, col + 2, Value22(a, l, 2, i))
    IN  IF Skip(row, col) THEN st ELSE s3

\* A translational value of fkCBFxycte12: coef*b1*a2 * g1Af2B*f1A*g2B*kt
Trans12(coef, b1, a2, g, fA, gB, kt) ==
    Prod(<<coef, Dbl(b1), Dbl(a2), g, fA, gB, Dbl(kt)>>)

\* The rotational value without its leading -1.
Rot12Plus(a1, b1, a2, b2, g, fAxi, gBxi, kr) ==
    Div(Prod(<<Dbl(b1), Dbl(a2), g, fAxi, gBxi, Dbl(kr)>>), Mul(Dbl(a1), Dbl(b2)))

\* -1*b1*a2 * g1Awf2Bw*f1Awxi*g2Bwxi*kr/(a1*b2)
Rot12(a1, b1, a2, b2, g, fAxi, gBxi, kr) ==
    Div(Prod(<<Dbl(-1), Dbl(b1), Dbl(a2), g, fAxi, gBxi, Dbl(kr)>>),
        Mul(Dbl(a1), Dbl(b2)))

\* The t-th (0..3) value fkCBFxycte12 adds at <<j1, k2, i1, l2>>.
Value12(a, l, t, i) ==
    LET q1 == l.q1
        q2 == l.q2
        j1 == i[1]
        k2 == i[2]
        i1 == i[3]
        l2 == i[4]
        g1Auf2Bw == integral_ff(j1, k2, q1.uy, q2.wx)
        g1Avf2Bu == integral_ff(j1, k2, q1.vy, q2.ux)
        g1Awf2Bv == integral_ff(j1, k2, q1.wy, q2.vx)
        g1Awf2Bw == integral_ff(j1, k2, q1.wy, q2.wx)
    IN  IF t = 0
        THEN Trans12(Neg(Quarter), q1.b, q2.a, g1Auf2Bw,
                     calc_f(i1, l.xicte1, q1.ux), calc_f(l2, l.etacte2, q2.wy), a.kt)
        ELSE IF t = 1
        THEN Trans12(Neg(Quarter), q1.b, q2.a, g1Avf2Bu,
                     calc_f(i1, l.xicte1, q1.vx), calc_f(l2, l.etacte2, q2.uy), a.kt)
        ELSE IF t = 2
        THEN Trans12(Quarter, q1.b, q2.a, g1Awf2Bv,
                     calc_f(i1, l.xicte1, q1.wx), calc_f(l2, l.etacte2, q2.vy), a.kt)
        ELSE Rot12(q1.a, q1.b, q2.a, q2.b, g1Awf2Bw,
                   calc_fxi(i1, l.xicte1, q1.wx), calc_fxi(l2, l.etacte2, q2.wy), a.kr)

\* The (row, col) offsets of the four entries fkCBFxycte12 writes, in order.
Offsets12 == <<(<<0, 0>>), (<<1, 2>>), (<<2, 1>>), (<<2, 2>>)>>

\* One innermost iteration of fkCBFxycte12 at <<j1, k2, i1, l2>>.
Body12(st, a, l, i) ==
    LET row == RowOf(a.row0, i[1], l.q1.m, i[3])
        col == RowOf(a.col0, i[4], l.q2.m, i[2])
        s1 == Emit(st, row + Offsets12[1][1], col + Offsets12[1][2], Value12(a, l, 0, i))
        s2 == Emit(s1, row + Offsets12[2][1], col + Offsets12[2][2], Value12(a, l, 1, i))
        s3 == Emit(s2, row + Offsets12[3][1], col + Offsets12[3][2], Value12(a, l, 2, i))
        s4 == Emit(s3, row + Offsets12[4][1], col + Offsets12[4][2], Value12(a, l, 3, i))
    IN  s4

\* ------------------------------------------------------------ the result

NoBuf == [x \in {} |-> 0]

NoResult == [status |-> "none", row |-> NoBuf, col |-> NoBuf, data |-> NoBuf, shape |-> <<0, 0>>]

Raised == [status |-> "error", row |-> NoBuf, col |-> NoBuf, data |-> NoBuf, shape |-> <<0, 0>>]

\* The constructor without its index check.
coo_unchecked(v, r, cl, size) ==
    [status |-> "ok", row |-> r, col |-> cl, data |-> v, shape |-> <<size, size>>]

\* coo_matrix((v, (r, c)), shape=(size, size)): the constructor rejects an
\* index outside the shape with ValueError; otherwise the three sequences are
\* kept as handed over.
coo_matrix(v, r, cl, size) ==
    IF \E x \in DOMAIN r : r[x] < 0 \/ r[x] >= size \/ cl[x] < 0 \/ cl[x] >= size
    THEN Raised
    ELSE [status |-> "ok", row |-> r, col |-> cl, data |-> v, shape |-> <<size, size>>]

\* ------------------------------------------------------------ the machine

NoInput == Input("none", <<0, 0>>, NoPanel, NoPanel, 0, 0, 0, 0, 0)

State == [c |-> c, r |-> kCr, cl |-> kCc, v |-> kCv, wc |-> wcount, oob |-> oob]

Init ==
    /\ pc = "idle"
    /\ args = NoInput
    /\ p1 = NoPanel
    /\ p2 = NoPanel
    /\ loc = Locals(NoInput)
    /\ idx = <<0, 0, 0, 0>>
    /\ c = -1
    /\ kCr = NoBuf
    /\ kCc = NoBuf
    /\ kCv = NoBuf
    /\ wcount = NoBuf
    /\ oob = FALSE
    /\ result = NoResult
    /\ hist = {}

\* The assembler calls a procedure: the locals are read off the panels, the
\* coordinates normalized, the buffers allocated and c set to -1.
Enter(inp) ==
    /\ pc' = "loop"
    /\ args' = inp
    /\ p1' = inp.p1
    /\ p2' = inp.p2
    /\ loc' = Locals(inp)
    /\ idx' = <<0, 0, 0, 0>>
    /\ c' = -1
    /\ kCr' = ZerosInt(Locals(inp).fdim)
    /\ kCc' = ZerosInt(Locals(inp).fdim)
    /\ kCv' = ZerosDouble(Locals(inp).fdim)
    /\ wcount' = ZerosInt(Locals(inp).fdim)
    /\ oob' = FALSE
    /\ result' = NoResult
    /\ UNCHANGED hist

Call == pc = "idle" /\ \E inp \in Inputs : Enter(inp)

\* The state after one innermost iteration that leaves the buffers as s.
Advance(s) ==
    /\ c' = s.c
    /\ kCr' = s.r
    /\ kCc' = s.cl
    /\ kCv' = s.v
    /\ wcount' = s.wc
    /\ oob' = s.oob
    /\ idx' = NextIdx(idx, LoopBounds(args.proc, loc))
    /\ UNCHANGED <<pc, args, p1, p2, loc, result, hist>>

InLoop(proc) ==
    /\ pc = "loop"
    /\ args.proc = proc
    /\ ~Exhausted(idx, LoopBounds(proc, loc))

Step11 == InLoop("fkCBFxcte11") /\ Advance(Body11(State, args, loc, idx))

Step12 == InLoop("fkCBFxycte12") /\ Advance(Body12(State, args, loc, idx))

Step22 == InLoop("fkCBFycte22") /\ Advance(Body22(State, args, loc, idx))

\* The loop nest is over: the buffers go to coo_matrix and the call returns
\* (or coo_matrix raises and nothing is returned).
Finish ==
    /\ pc = "loop"
    /\ Exhausted(idx, LoopBounds(args.proc, loc))
    /\ pc' = "done"
    /\ result' = coo_matrix(kCv, kCr, kCc, args.size)
    /\ UNCHANGED <<args, p1, p2, loc, idx, c, kCr, kCc, kCv, wcount, oob>>

Return == Finish /\ UNCHANGED hist

Next ==
    \/ Call
    \/ Step11
    \/ Step12
    \/ Step22
    \/ Return

Spec == Init /\ [][Next]_vars

\* ------------------------------------------------------------ the claims

Done == pc = "done"

Ok == result.status = "ok"

Single == args.proc \in {"fkCBFxcte11", "fkCBFycte22"}

Cross == args.proc = "fkCBFxycte12"

\* The panel whose basis indexes the rows / the columns of the block.
RowPanel(a) == IF a.proc = "fkCBFycte22" THEN a.p2 ELSE a.p1

ColPanel(a) == IF a.proc = "fkCBFxcte11" THEN a.p1 ELSE a.p2

RowExtent(a) == 3 * RowPanel(a).m * RowPanel(a).n

ColExtent(a) == 3 * ColPanel(a).m * ColPanel(a).n

\* The documented precondition of a call.
Valid(a) ==
    /\ RowPanel(a).a > 0 /\ RowPanel(a).b > 0 /\ RowPanel(a).m >= 1 /\ RowPanel(a).n >= 1
    /\ ColPanel(a).a > 0 /\ ColPanel(a).b > 0 /\ ColPanel(a).m >= 1 /\ ColPanel(a).n >= 1
    /\ a.kt >= 0 /\ a.kr >= 0 /\ ~(a.kt = 0 /\ a.kr # 0)
    /\ a.row0 >= 0 /\ a.col0 >= 0
    /\ a.row0 + RowExtent(a) <= a.size /\ a.col0 + ColExtent(a) <= a.size
    /\ (a.proc # "fkCBFycte22" => 0 <= a.xcte1 /\ a.xcte1 <= a.p1.a)
    /\ (a.proc # "fkCBFxcte11" => 0 <= a.ycte2 /\ a.ycte2 <= a.p2.b)

\* C1: on valid input every (row, col) pair of the sequences returned by
\* fkCBFxcte11 and fkCBFycte22 has row <= col.
C1_UpperTriangle ==
    (Done /\ Single /\ Valid(args)) =>
        /\ Ok
        /\ \A x \in DOMAIN result.row : result.row[x] <= result.col[x]

\* A single-edge call on valid input returned after skipping some combinations
\* and writing one strictly above the diagonal.
C1_Witness ==
    /\ Done /\ Single /\ Valid(args) /\ Ok
    /\ c + 1 < loc.fdim
    /\ \E x \in 0 .. c : result.row[x] < result.col[x]

\* C2 as claimed: every pair present in the returned sequences lies in the
\* placement block.
C2_AllSlotsInBlock ==
    (Done /\ Valid(args)) =>
        /\ Ok
        /\ \A x \in DOMAIN result.row :
              /\ args.row0 <= result.row[x] /\ result.row[x] < args.row0 + RowExtent(args)
              /\ args.col0 <= result.col[x] /\ result.col[x] < args.col0 + ColExtent(args)

\* C2, amended: every written pair (slots 0..c) lies in the placement block;
\* the slots a single-edge procedure leaves unwritten hold (0, 0) with value 0;
\* fkCBFxycte12 leaves none unwritten; all indices are in [0, size).
C2_WrittenInBlock ==
    (Done /\ Valid(args)) =>
        /\ Ok
        /\ DOMAIN result.row = 0 .. loc.fdim - 1
        /\ \A x \in 0 .. c :
              /\ args.row0 <= result.row[x] /\ result.row[x] < args.row0 + RowExtent(args)
              /\ args.col0 <= result.col[x] /\ result.col[x] < args.col0 + ColExtent(args)
        /\ \A x \in c + 1 .. loc.fdim - 1 :
              result.row[x] = 0 /\ result.col[x] = 0 /\ result.data[x] = Zero
        /\ (Cross => c = loc.fdim - 1)
        /\ \A x \in DOMAIN result.row :
              /\ 0 <= result.row[x] /\ result.row[x] < args.size
              /\ 0 <= result.col[x] /\ result.col[x] < args.size

\* A valid single-edge call placed away from the origin returned with written
\* entries and with unwritten slots, which lie outside its block.
C2_Witness ==
    /\ Done /\ Single /\ Valid(args) /\ Ok
    /\ args.row0 > 0 /\ args.col0 > 0
    /\ 0 <= c /\ c + 1 < loc.fdim

\* The index tuples <<j1, k2, i1, l2>> of the fkCBFxycte12 loop nest, and the
\* number of combinations the nest runs before each.
Combos12 ==
    { <<j1, k2, i1, l2>> : j1 \in 0 .. args.p1.n - 1, k2 \in 0 .. args.p2.m - 1,
                           i1 \in 0 .. args.p1.m - 1, l2 \in 0 .. args.p2.n - 1 }

Before12(i) == ((i[1] * args.p2.m + i[2]) * args.p1.m + i[3]) * args.p2.n + i[4]

\* C3: fkCBFxycte12 writes, for every combination (i1, j1, k2, l2), exactly
\* four entries, at (row+0,col+2), (row+1,col+0), (row+2,col+1), (row+2,col+2)
\* with row = row0+3*(j1*m1+i1), col = col0+3*(l2*m2+k2).
C3_CrossPositions ==
    (Done /\ Cross /\ Valid(args)) =>
        /\ Ok
        /\ DOMAIN result.row = 0 .. 4 * Cardinality(Combos12) - 1
        /\ \A i \in Combos12 :
              LET row == args.row0 + 3 * (i[1] * args.p1.m + i[3])
                  col == args.col0 + 3 * (i[4] * args.p2.m + i[2])
                  x == 4 * Before12(i)
              IN  { <<result.row[x + t] - row, result.col[x + t] - col>> : t \in 0 .. 3 }
                    = { <<0, 2>>, <<1, 0>>, <<2, 1>>, <<2, 2>> }

\* The integer value of a library result.
Val(x) == x.n

\* C4 as claimed: the four values of a combination carry the signs +, -, -, +;
\* the first three are 0.5*b1*a2*kt times (integral * basis 1 * basis 2), the
\* fourth is the rotational term in kr over a1*b2.
C4_SignsAsClaimed ==
    (Done /\ Cross /\ Valid(args)) =>
        \A i \in Combos12 :
            LET q1 == args.p1
                q2 == args.p2
                x == 4 * Before12(i)
                guw == Val(integral_ff(i[1], i[2], q1.uy, q2.wx))
                gvu == Val(integral_ff(i[1], i[2], q1.vy, q2.ux))
                gwv == Val(integral_ff(i[1], i[2], q1.wy, q2.vx))
                gww == Val(integral_ff(i[1], i[2], q1.wy, q2.wx))
                fu == Val(calc_f(i[3], loc.xicte1, q1.ux))
                fv == Val(calc_f(i[3], loc.xicte1, q1.vx))
                fw == Val(calc_f(i[3], loc.xicte1, q1.wx))
                fwxi == Val(calc_fxi(i[3], loc.xicte1, q1.wx))
                gu == Val(calc_f(i[4], loc.etacte2, q2.uy))
                gv == Val(calc_f(i[4], loc.etacte2, q2.vy))
                gw == Val(calc_f(i[4], loc.etacte2, q2.wy))
                gwxi == Val(calc_fxi(i[4], loc.etacte2, q2.wy))
            IN  /\ result.data[x] = Fin(q1.b * q2.a * args.kt * guw * fu * gw, 2)
                /\ result.data[x + 1] = Fin(-(q1.b * q2.a * args.kt * gvu * fv * gu), 2)
                /\ result.data[x + 2] = Fin(-(q1.b * q2.a * args.kt * gwv * fw * gv), 2)
                /\ Sgn(result.data[x + 3]) = Sgn(Dbl(args.kr * gww * fwxi * gwxi))

\* C4, amended: the four values carry the signs -, -, +, -; the first three
\* are 0.25*b1*a2*kt times (integral * basis 1 * basis 2), the fourth is
\* b1*a2*kr/(a1*b2) times (integral * the two w basis derivatives).
C4_SignsOfCode ==
    (Done /\ Cross /\ Valid(args)) =>
        \A i \in Combos12 :
            LET q1 == args.p1
                q2 == args.p2
                x == 4 * Before12(i)
                guw == Val(integral_ff(i[1], i[2], q1.uy, q2.wx))
                gvu == Val(integral_ff(i[1], i[2], q1.vy, q2.ux))
                gwv == Val(integral_ff(i[1], i[2], q1.wy, q2.vx))
                gww == Val(integral_ff(i[1], i[2], q1.wy, q2.wx))
                fu == Val(calc_f(i[3], loc.xicte1, q1.ux))
                fv == Val(calc_f(i[3], loc.xicte1, q1.vx))
                fw == Val(calc_f(i[3], loc.xicte1, q1.wx))
                fwxi == Val(calc_fxi(i[3], loc.xicte1, q1.wx))
                gu == Val(calc_f(i[4], loc.etacte2, q2.uy))
                gv == Val(calc_f(i[4], loc.etacte2, q2.vy))
                gw == Val(calc_f(i[4], loc.etacte2, q2.wy))
                gwxi == Val(calc_fxi(i[4], loc.etacte2, q2.wy))
            IN  /\ result.data[x] = Fin(-(q1.b * q2.a * args.kt * guw * fu * gw), 4)
                /\ result.data[x + 1] = Fin(-(q1.b * q2.a * args.kt * gvu * fv * gu), 4)
                /\ result.data[x + 2] = Fin(q1.b * q2.a * args.kt * gwv * fw * gv, 4)
                /\ result.data[x + 3] =
                       Fin(-(q1.b * q2.a * args.kr * gww * fwxi * gwxi), q1.a * q2.b)

\* A valid cross-coupling call returned with all four values of some
\* combination non-zero.
C4_Witness ==
    /\ Done /\ Cross /\ Valid(args) /\ Ok
    /\ \E i \in Combos12 : \A t \in 0 .. 3 : ~IsZero(result.data[4 * Before12(i) + t])

\* The returned matrix read densely: coordinate format sums the values of the
\* slots that name the same (row, col).
SlotsAt(r, cl) == { x \in DOMAIN result.row : result.row[x] = r /\ result.col[x] = cl }

RECURSIVE SumData(_)
SumData(S) ==
    IF S = {} THEN Zero
    ELSE LET x == CHOOSE y \in S : TRUE
         IN  Add(result.data[x], SumData(S \ {x}))

K(r, cl) == SumData(SlotsAt(r, cl))

\* The intended full matrix of a single-edge call: the entry of every
\* combination (i, j, k, l), none skipped, at (row+d, col+d); zero elsewhere.
F(r, cl) ==
    LET q == RowPanel(args)
        rr == r - args.row0
        cc == cl - args.col0
        A == rr \div 3
        B == cc \div 3
        i == A % q.m
        j == A \div q.m
        k == B % q.m
        l == B \div q.m
    IN  IF rr < 0 \/ cc < 0 \/ rr >= RowExtent(args) \/ cc >= ColExtent(args)
           \/ rr % 3 # cc % 3
        THEN Zero
        ELSE IF args.proc = "fkCBFxcte11"
             THEN Value11(args, loc, rr % 3, <<j, l, i, k>>)
             ELSE Value22(args, loc, rr % 3, <<i, k, j, l>>)

Cells == (0 .. args.size - 1) \X (0 .. args.size - 1)

\* C5 as claimed: with row0 = col0, K + K^T reproduces the full symmetric
\* matrix F.
C5_SumWithTranspose ==
    (Done /\ Single /\ Valid(args) /\ args.row0 = args.col0) =>
        \A rc \in Cells : Add(K(rc[1], rc[2]), K(rc[2], rc[1])) = F(rc[1], rc[2])

\* C5, amended: with row0 = col0, K + K^T - diag(K) reproduces F: K + K^T
\* agrees with F off the diagonal, and K alone agrees with F on the diagonal
\* (K + K^T counts the diagonal twice).
C5_MirrorOffDiagonal ==
    (Done /\ Single /\ Valid(args) /\ args.row0 = args.col0) =>
        \A rc \in Cells :
            IF rc[1] = rc[2]
            THEN K(rc[1], rc[2]) = F(rc[1], rc[2])
            ELSE Add(K(rc[1], rc[2]), K(rc[2], rc[1])) = F(rc[1], rc[2])

\* A valid single-edge call with row0 = col0 returned a matrix with a non-zero
\* diagonal entry, a non-zero entry above the diagonal and skipped combinations.
C5_Witness ==
    /\ Done /\ Single /\ Valid(args) /\ Ok /\ args.row0 = args.col0
    /\ c + 1 < loc.fdim
    /\ \E x \in 0 .. c : result.row[x] = result.col[x] /\ result.data[x].k = "fin"
                         /\ ~IsZero(result.data[x])
    /\ \E x \in 0 .. c : result.row[x] < result.col[x] /\ result.data[x].k = "fin"
                         /\ ~IsZero(result.data[x])

\* C6: the buffers hold 3*m*n*m*n slots (single-edge) or 4*m1*n1*m2*n2 slots
\* (cross-coupling); the write index stays inside the buffer; a slot is written
\* at most once and the slots written are 0..c; unwritten slots are zero; a
\* finished cross-coupling call has written every slot exactly once.
C6_BufferUse ==
    (pc # "idle") =>
        /\ loc.fdim = IF Single THEN 3 * RowPanel(args).m * RowPanel(args).n
                                       * RowPanel(args).m * RowPanel(args).n
                      ELSE 4 * args.p1.m * args.p1.n * args.p2.m * args.p2.n
        /\ DOMAIN kCr = 0 .. loc.fdim - 1
        /\ DOMAIN kCc = 0 .. loc.fdim - 1
        /\ DOMAIN kCv = 0 .. loc.fdim - 1
        /\ ~oob
        /\ -1 <= c /\ c < loc.fdim
        /\ \A x \in DOMAIN kCv : wcount[x] = IF x <= c THEN 1 ELSE 0
        /\ \A x \in DOMAIN kCv : x > c => kCr[x] = 0 /\ kCc[x] = 0 /\ kCv[x] = Zero
        /\ (Done /\ Cross => c = loc.fdim - 1)

\* A cross-coupling call finished with a full buffer of more than one
\* combination, or a single-edge call finished having written some slots and
\* left others.
C6_Witness ==
    /\ Done
    /\ \/ Cross /\ loc.fdim > 4 /\ c = loc.fdim - 1
       \/ Single /\ 0 <= c /\ c + 1 < loc.fdim
    /\ \A x \in 0 .. c : wcount[x] = 1

IndicesInShape ==
    \A x \in DOMAIN kCr :
        0 <= kCr[x] /\ kCr[x] < args.size /\ 0 <= kCc[x] /\ kCc[x] < args.size

ComboAt(row, col) ==
    LET q == RowPanel(args)
        A == (row - args.row0) \div 3
        B == (col - args.col0) \div 3
    IN  <<A % q.m, A \div q.m, B % q.m, B \div q.m>>

\* C8: in the single-edge procedures with kt # 0 and kr = 0 every written w-w
\* entry is the translational term alone: 0.5*b1*kt*f_w(i)*f_w(k)*g_w(j,l) for
\* fkCBFxcte11 and 0.5*a2*kt*F_w(i,k)*g_w(j)*g_w(l) for fkCBFycte22.
C8_RotationVanishes ==
    (Done /\ Single /\ Valid(args) /\ args.kt # 0 /\ args.kr = 0) =>
        \A x \in 0 .. c :
            x % 3 = 2 =>
                LET q == RowPanel(args)
                    ijkl == ComboAt(result.row[x], result.col[x])
                    i == ijkl[1]
                    j == ijkl[2]
                    k == ijkl[3]
                    l == ijkl[4]
                IN  result.data[x] =
                        IF args.proc = "fkCBFxcte11"
                        THEN Fin(q.b * args.kt * Val(calc_f(i, loc.xicte1, q.wx))
                                 * Val(calc_f(k, loc.xicte1, q.wx))
                                 * Val(integral_ff(j, l, q.wy, q.wy)), 2)
                        ELSE Fin(q.a * args.kt * Val(integral_ff(i, k, q.wx, q.wx))
                                 * Val(calc_f(j, loc.etacte2, q.wy))
                                 * Val(calc_f(l, loc.etacte2, q.wy)), 2)

\* A valid fkCBFxcte11 call with kt # 0, kr = 0 wrote a w-w entry whose basis
\* derivatives and coupling integral are all non-zero.
C8_Witness ==
    /\ Done /\ args.proc = "fkCBFxcte11" /\ Valid(args) /\ Ok
    /\ args.kt # 0 /\ args.kr = 0
    /\ \E x \in 0 .. c :
          /\ x % 3 = 2
          /\ LET ijkl == ComboAt(result.row[x], result.col[x])
             IN  /\ ~IsZero(calc_fxi(ijkl[1], loc.xicte1, args.p1.wx))
                 /\ ~IsZero(calc_fxi(ijkl[3], loc.xicte1, args.p1.wx))
                 /\ ~IsZero(integral_ff(ijkl[2], ijkl[4], args.p1.wy, args.p1.wy))

\* x along an edge of length len normalizes to -1 at 0, to +1 at len, to
\* 2*x/len - 1 in [-1, 1] in between.
NormalizedAs(xi, x, len) ==
    /\ xi = Fin(2 * x - len, len)
    /\ Leq(Dbl(-1), xi) /\ Leq(xi, Dbl(1))
    /\ (x = 0 => xi = Dbl(-1))
    /\ (x = len => xi = Dbl(1))

UpperCombos ==
    LET q == RowPanel(args)
    IN  { ijkl \in (0 .. q.m - 1) \X (0 .. q.n - 1) \X (0 .. q.m - 1) \X (0 .. q.n - 1) :
            ijkl[2] * q.m + ijkl[1] <= ijkl[4] * q.m + ijkl[3] }

\* The written triples of a single-edge call with row0 = col0 are exactly
\* those of the combinations with j*m+i <= l*m+k: three per combination, in
\* the order u, v, w, at (row+0,col+0), (row+1,col+1), (row+2,col+2) with
\* row = row0+3*(j*m+i), col = col0+3*(l*m+k); a single m = n = 1 panel with
\* size = 3, row0 = col0 = 0 returns exactly 3 entries at (0,0), (1,1), (2,2).
WrittenAsUpperCombos ==
    LET q == RowPanel(args)
    IN  /\ Ok
        /\ c + 1 = 3 * Cardinality(UpperCombos)
        /\ { <<result.row[x], result.col[x]>> : x \in 0 .. c }
             = { <<args.row0 + 3 * (ijkl[2] * q.m + ijkl[1]) + d,
                   args.col0 + 3 * (ijkl[4] * q.m + ijkl[3]) + d>> :
                     ijkl \in UpperCombos, d \in 0 .. 2 }
        /\ \A x \in 0 .. c :
              /\ (result.row[x] - args.row0) % 3 = x % 3
              /\ (result.col[x] - args.col0) % 3 = x % 3
              /\ ComboAt(result.row[x], result.col[x]) \in UpperCombos
        /\ (q.m = 1 /\ q.n = 1 /\ args.size = 3 /\ args.row0 = 0) =>
              /\ DOMAIN result.row = 0 .. 2
              /\ \A x \in 0 .. 2 : result.row[x] = x /\ result.col[x] = x

\* The boundary coefficients of field d (0: u, 1: v) of a panel along x, along y.
FieldX(q, d) == IF d = 0 THEN q.ux ELSE q.vx

FieldY(q, d) == IF d = 0 THEN q.uy ELSE q.vy

\* C11 as claimed: with row0 = col0 the written triples are those of the
\* combinations with j*m+i <= l*m+k at the diagonal-block positions, and for
\* m = n = 1, size = 3, row0 = col0 = 0 the u and v entries equal
\* 0.5 * f(0,xi)^2 * g(0,0)^2 * kt, f the basis value at the edge and g the
\* along-edge integral of the field.
C11_ValuesAsClaimed ==
    (Done /\ Single /\ Valid(args) /\ args.row0 = args.col0) =>
        /\ WrittenAsUpperCombos
        /\ LET q == RowPanel(args)
           IN  (q.m = 1 /\ q.n = 1 /\ args.size = 3 /\ args.row0 = 0) =>
                 \A d \in 0 .. 1 :
                    LET f == IF args.proc = "fkCBFxcte11"
                             THEN Val(calc_f(0, loc.xicte1, FieldX(q, d)))
                             ELSE Val(calc_f(0, loc.etacte2, FieldY(q, d)))
                        g == IF args.proc = "fkCBFxcte11"
                             THEN Val(integral_ff(0, 0, FieldY(q, d), FieldY(q, d)))
                             ELSE Val(integral_ff(0, 0, FieldX(q, d), FieldX(q, d)))
                    IN  result.data[d] = Fin(f * f * g * g * args.kt, 2)

\* C11, amended: the positions as claimed; the u and v entries of every
\* written combination (i, j, k, l) equal 0.5*b*f(i,xi)*f(k,xi)*g(j,l)*kt in
\* fkCBFxcte11 and 0.5*a*F(i,k)*g(j,eta)*g(l,eta)*kt in fkCBFycte22, so for
\* m = n = 1 they are 0.5*b*f(0,xi)^2*g(0,0)*kt and 0.5*a*F(0,0)*g(0,eta)^2*kt:
\* the extent of the edge is a factor and the integral enters once.
C11_ValuesOfCode ==
    (Done /\ Single /\ Valid(args) /\ args.row0 = args.col0) =>
        /\ WrittenAsUpperCombos
        /\ \A x \in 0 .. c :
              x % 3 # 2 =>
                LET q == RowPanel(args)
                    d == x % 3
                    ijkl == ComboAt(result.row[x], result.col[x])
                    i == ijkl[1]
                    j == ijkl[2]
                    k == ijkl[3]
                    l == ijkl[4]
                IN  result.data[x] =
                        IF args.proc = "fkCBFxcte11"
                        THEN Fin(q.b * args.kt
                                 * Val(calc_f(i, loc.xicte1, FieldX(q, d)))
                                 * Val(calc_f(k, loc.xicte1, FieldX(q, d)))
                                 * Val(integral_ff(j, l, FieldY(q, d), FieldY(q, d))), 2)
                        ELSE Fin(q.a * args.kt
                                 * Val(integral_ff(i, k, FieldX(q, d), FieldX(q, d)))
                                 * Val(calc_f(j, loc.etacte2, FieldY(q, d)))
                                 * Val(calc_f(l, loc.etacte2, FieldY(q, d))), 2)

\* A valid fkCBFxcte11 call on an m = n = 1 panel with size = 3,
\* row0 = col0 = 0 returned its three entries, the u and v values non-zero.
C11_Witness ==
    /\ Done /\ args.proc = "fkCBFxcte11" /\ Valid(args) /\ Ok
    /\ args.p1.m = 1 /\ args.p1.n = 1 /\ args.size = 3
    /\ args.row0 = 0 /\ args.col0 = 0
    /\ c = 2
    /\ ~IsZero(result.data[0]) /\ ~IsZero(result.data[1])

\* The divisor of the rotational term of a single-edge w value: (a1*a1)*kt in
\* fkCBFxcte11, (b2*b2)*kt in fkCBFycte22.
WDivisor ==
    IF args.proc = "fkCBFxcte11"
    THEN Mul(Mul(Dbl(loc.q1.a), Dbl(loc.q1.a)), Dbl(args.kt))
    ELSE Mul(Mul(Dbl(loc.q2.b), Dbl(loc.q2.b)), Dbl(args.kt))

\* A w value was written, and its rotational term was divided by zero.
DividesByZero == c >= 2 /\ IsZero(WDivisor)

\* C12: a single-edge call divides by zero only when kt = 0 and kr # 0; with
\* kt = 0 and kr = 0 no division by zero is performed and every written value,
\* translational and rotational, is zero.
C12_ZeroStiffnessIsZero ==
    (Done /\ Single /\ Ok) =>
        /\ (DividesByZero => args.kt = 0 /\ args.kr # 0)
        /\ (args.kt = 0 /\ args.kr = 0 =>
                \A x \in 0 .. c : result.data[x] = Zero)

\* C12, what the code does instead: with kt = 0 and kr = 0 the u and v values
\* are zero, the rotational term is 0/0 and every written w value is NaN.
C12_ZeroStiffnessIsNaN ==
    (Done /\ Single /\ Ok /\ Valid(args) /\ args.kt = 0 /\ args.kr = 0) =>
        /\ (c >= 2 => DividesByZero)
        /\ \A x \in 0 .. c :
              result.data[x] = IF x % 3 = 2 THEN NaN ELSE Zero

\* A valid fkCBFxcte11 call with kt = 0 and kr = 0 returned a result whose
\* first w value is NaN.
C12_Witness ==
    /\ Done /\ args.proc = "fkCBFxcte11" /\ Valid(args) /\ Ok
    /\ args.kt = 0 /\ args.kr = 0
    /\ c >= 2 /\ result.data[2] = NaN

\* ------------------------------------------------- repeated calls

\* Calls made again and again by an assembler: every procedure, every order
\* of panel 1, the orders of panel 2 mirrored.
RepeatInputs ==
    { inp \in Inputs :
        /\ inp.kt = 2 /\ inp.kr = 1
        /\ inp.xcte1 \in {0, 1} /\ inp.ycte2 \in {0, 1} /\ inp.xcte1 = inp.ycte2
        /\ inp.row0 = 0 /\ inp.col0 = 0
        /\ inp.size = num * MaxOrder * MaxOrder + num
        /\ (inp.proc = "fkCBFxycte12" => inp.p2.m = inp.p1.n /\ inp.p2.n = inp.p1.m) }

FirstCall == pc = "idle" /\ \E inp \in RepeatInputs : Enter(inp)

\* A further call after one has returned; what the earlier call left in
\* memory is still there when this one sets up.
NextCall == pc = "done" /\ \E inp \in RepeatInputs : Enter(inp)

\* The call returns and its input and output are noted for comparison.
ReturnNoted ==
    /\ Finish
    /\ hist' = {[inp |-> args, out |-> coo_matrix(kCv, kCr, kCc, args.size)]}

NextRepeat ==
    \/ FirstCall
    \/ NextCall
    \/ Step11
    \/ Step12
    \/ Step22
    \/ Return
    \/ ReturnNoted

SpecRepeat == Init /\ [][NextRepeat]_vars

\* C10: a call with the same inputs as a noted earlier call, whatever calls
\* came in between, returns the same row, column and value sequences; and the
\* panel descriptors are as the caller handed them over throughout the call.
C10_Pure ==
    /\ \A h \in hist : (Done /\ h.inp = args) => h.out = result
    /\ (pc # "idle" => p1 = args.p1 /\ p2 = args.p2)

\* A call returned whose inputs equal those of a noted earlier call, with the
\* same sequences, several entries written and a non-zero value among them.
C10_Witness ==
    /\ Done /\ Ok
    /\ \E h \in hist : h.inp = args /\ h.out = result
    /\ \E x \in DOMAIN result.data : ~IsZero(result.data[x])
    /\ c >= 5

====
